---- MODULE Spec2Model ----
(***************************************************************************)
(* State-machine model of the XinFin HTLC transaction builders             *)
(* (swap/providers/xinfin/transaction.py) and solvers                      *)
(* (swap/providers/xinfin/solver.py): one Transaction instance of a role   *)
(* (Fund, Withdraw, Refund), its build_transaction and sign operations,    *)
(* its accessors, and the transaction-raw encoding.  The decoder of the    *)
(* transaction raw and the Signature facade, whose code is in other files  *)
(* of the package, follow their description.                               *)
(*                                                                         *)
(* Python str values are sequences of character codes, so that             *)
(* json.dumps, b64encode and their inverses are computed on bytes.         *)
(***************************************************************************)
EXTENDS Integers, Sequences, FiniteSets, TLC

VARIABLES
    role,          \* class of the instance: "fund", "withdraw" or "refund"
    _network,      \* self._network
    _transaction,  \* self._transaction: None or the unsigned transaction dict
    _signature,    \* self._signature: None or the signature dict
    _type,         \* self._type: None or the type tag
    _fee,          \* self._fee: None or the gas estimate
    last,          \* the last call made on the instance and how it ended
    built,         \* whether build_transaction has ever succeeded on the instance
    shared_solver, \* a solver object that several sign calls are given
    instances,     \* the Transaction instances those calls are made on
    threads,       \* for each of those calls, its position and its locals
    wallets,       \* the Wallet objects allocated by solve(), in allocation order
    started        \* the instances as they were before the first of those calls

\* the objects of the concurrent signing of two instances with one solver
conc == <<shared_solver, instances, threads, wallets, started>>

vars == <<role, _network, _transaction, _signature, _type, _fee, last, built,
          shared_solver, instances, threads, wallets, started>>

(***************************************************************************)
(* Bounds of the model.                                                    *)
(***************************************************************************)
\* account transaction counts (nonces) read from the chain are 0..MaxNonce
MaxNonce == 1

(***************************************************************************)
(* The str constants of the program, as character codes.                   *)
(***************************************************************************)
S_fee == <<102, 101, 101>>
S_transaction == <<116, 114, 97, 110, 115, 97, 99, 116, 105, 111, 110>>
S_signature == <<115, 105, 103, 110, 97, 116, 117, 114, 101>>
S_network == <<110, 101, 116, 119, 111, 114, 107>>
S_type == <<116, 121, 112, 101>>
S_chainId == <<99, 104, 97, 105, 110, 73, 100>>
S_from == <<102, 114, 111, 109>>
S_value == <<118, 97, 108, 117, 101>>
S_nonce == <<110, 111, 110, 99, 101>>
S_gas == <<103, 97, 115>>
S_gasPrice == <<103, 97, 115, 80, 114, 105, 99, 101>>
S_to == <<116, 111>>
S_data == <<100, 97, 116, 97>>
S_hash == <<104, 97, 115, 104>>
S_rawTransaction == <<114, 97, 119, 84, 114, 97, 110, 115, 97, 99, 116, 105, 111, 110>>
S_r == <<114>>
S_s == <<115>>
S_v == <<118>>
S_mainnet == <<109, 97, 105, 110, 110, 101, 116>>
S_testnet == <<116, 101, 115, 116, 110, 101, 116>>
S_xinfin == <<120, 105, 110, 102, 105, 110>>
S_fund == <<102, 117, 110, 100>>
S_withdraw == <<119, 105, 116, 104, 100, 114, 97, 119>>
S_refund == <<114, 101, 102, 117, 110, 100>>
S_unsigned == <<117, 110, 115, 105, 103, 110, 101, 100>>
S_signed == <<115, 105, 103, 110, 101, 100>>
S_0x == <<48, 120>>
S_xdc == <<120, 100, 99>>

\* "xinfin_<role>_<unsigned|signed>"
RoleStr(r) ==
    CASE r = "fund" -> S_fund
      [] r = "withdraw" -> S_withdraw
      [] r = "refund" -> S_refund

TypeTag(r, state) == S_xinfin \o <<95>> \o RoleStr(r) \o <<95>> \o state

(***************************************************************************)
(* Tagged Python objects, as json.dumps sees them.                         *)
(***************************************************************************)
PyNone == [t |-> "none", v |-> 0]
PyInt(n) == [t |-> "int", v |-> n]
PyStr(s) == [t |-> "str", v |-> s]
PyDict(items) == [t |-> "dict", v |-> items]
Item(k, x) == [k |-> k, v |-> x]

\* decimal digits of a non-negative int
RECURSIVE Digits(_)
Digits(n) == IF n < 10 THEN <<48 + n>> ELSE Digits(n \div 10) \o <<48 + (n % 10)>>

\* json.dumps with the default separators ", " and ": "
RECURSIVE Dumps(_)
RECURSIVE DumpItems(_, _)
DumpItems(items, i) ==
    IF i > Len(items) THEN <<>>
    ELSE (IF i > 1 THEN <<44, 32>> ELSE <<>>)
         \o <<34>> \o items[i].k \o <<34, 58, 32>> \o Dumps(items[i].v)
         \o DumpItems(items, i + 1)

Dumps(x) ==
    CASE x.t = "none" -> <<110, 117, 108, 108>>
      [] x.t = "int" -> Digits(x.v)
      [] x.t = "str" -> <<34>> \o x.v \o <<34>>
      [] x.t = "dict" -> <<123>> \o DumpItems(x.v, 1) \o <<125>>

\* base64 of a byte string: sextets 0..63, and 64 for the padding "=".
\* Three bytes b1 b2 b3 give the four sextets b1[7:2], b1[1:0] b2[7:4],
\* b2[3:0] b3[7:6] and b3[5:0]; a group short of bytes is padded.
PadByte(bytes, i) == IF i <= Len(bytes) THEN bytes[i] ELSE 0

B64Char(bytes, g, k) ==
    CASE k = 1 -> bytes[3 * g - 2] \div 4
      [] k = 2 -> (bytes[3 * g - 2] % 4) * 16 + PadByte(bytes, 3 * g - 1) \div 16
      [] k = 3 -> IF 3 * g - 1 > Len(bytes) THEN 64
                  ELSE (bytes[3 * g - 1] % 16) * 4 + PadByte(bytes, 3 * g) \div 64
      [] k = 4 -> IF 3 * g > Len(bytes) THEN 64 ELSE bytes[3 * g] % 64

b64encode(bytes) ==
    SubSeq([i \in 1..(4 * ((Len(bytes) + 2) \div 3)) |->
                B64Char(bytes, (i + 3) \div 4, ((i - 1) % 4) + 1)],
           1, 4 * ((Len(bytes) + 2) \div 3))

\* str.strip of the trailing "=" padding
RECURSIVE StripPadding(_)
StripPadding(s) ==
    IF Len(s) > 0 /\ s[Len(s)] = 64 THEN StripPadding(SubSeq(s, 1, Len(s) - 1)) ELSE s

\* b64decode of a padded string: four sextets s1 s2 s3 s4 give the three
\* bytes s1 s2[5:4], s2[3:0] s3[5:2] and s3[1:0] s4, less the bytes the
\* padding stands for
Sextet(c) == IF c = 64 THEN 0 ELSE c

Repad(s) == s \o [i \in 1..((4 - (Len(s) % 4)) % 4) |-> 64]

B64Byte(s, g, k) ==
    CASE k = 1 -> Sextet(s[4 * g - 3]) * 4 + Sextet(s[4 * g - 2]) \div 16
      [] k = 2 -> (Sextet(s[4 * g - 2]) % 16) * 16 + Sextet(s[4 * g - 1]) \div 4
      [] k = 3 -> (Sextet(s[4 * g - 1]) % 4) * 64 + Sextet(s[4 * g])

b64decode(s) ==
    LET pad == IF Len(s) > 0 /\ s[Len(s)] = 64
               THEN (IF s[Len(s) - 1] = 64 THEN 2 ELSE 1)
               ELSE 0
    IN  SubSeq([i \in 1..(3 * (Len(s) \div 4)) |->
                    B64Byte(s, (i + 2) \div 3, ((i - 1) % 3) + 1)],
               1, 3 * (Len(s) \div 4) - pad)

\* json.loads of a text produced by json.dumps
RECURSIVE CloseQuote(_, _)
CloseQuote(s, i) == IF s[i] = 34 THEN i ELSE CloseQuote(s, i + 1)

IsDigit(c) == c >= 48 /\ c <= 57

RECURSIVE EndDigits(_, _)
EndDigits(s, i) == IF i <= Len(s) /\ IsDigit(s[i]) THEN EndDigits(s, i + 1) ELSE i

RECURSIVE Number(_, _, _)
Number(s, i, j) == IF j < i THEN 0 ELSE Number(s, i, j - 1) * 10 + (s[j] - 48)

RECURSIVE ParseValue(_, _)
RECURSIVE ParseMembers(_, _, _)
ParseValue(s, i) ==
    CASE s[i] = 123 -> ParseMembers(s, i + 1, <<>>)
      [] s[i] = 34 -> LET j == CloseQuote(s, i + 1)
                      IN  [val |-> PyStr(SubSeq(s, i + 1, j - 1)), next |-> j + 1]
      [] s[i] = 110 -> [val |-> PyNone, next |-> i + 4]
      [] OTHER -> LET j == EndDigits(s, i)
                  IN  [val |-> PyInt(Number(s, i, j - 1)), next |-> j]

ParseMembers(s, i, acc) ==
    IF s[i] = 125 THEN [val |-> PyDict(acc), next |-> i + 1]
    ELSE IF s[i] = 44 THEN ParseMembers(s, i + 2, acc)
    ELSE LET j == CloseQuote(s, i + 1)
             r == ParseValue(s, j + 3)
         IN  ParseMembers(s, r.next, Append(acc, Item(SubSeq(s, i + 1, j - 1), r.val)))

Loads(s) == ParseValue(s, 1).val

\* d[key] of a Python dict
RECURSIVE GetFrom(_, _, _)
GetFrom(items, key, i) ==
    IF i > Len(items) THEN PyNone
    ELSE IF items[i].k = key THEN items[i].v ELSE GetFrom(items, key, i + 1)

Get(d, key) == GetFrom(d.v, key, 1)

\* Python truthiness: None, 0, "" and {} are false
Falsy(x) ==
    CASE x.t = "none" -> TRUE
      [] x.t = "int" -> x.v = 0
      [] OTHER -> Len(x.v) = 0

(***************************************************************************)
(* Addresses, networks and the HTLC descriptor.                            *)
(***************************************************************************)
ADDR_A == S_0x \o <<65, 49>>       \* "0xA1", the sender, checksum form
ADDR_B == S_0x \o <<66, 50>>       \* "0xB2", the recipient, checksum form
ADDR_C == S_0x \o <<67, 51>>       \* "0xC3", the deployed HTLC contract
XDC_A == S_xdc \o <<97, 49>>       \* "xdca1", the sender with the xdc prefix
LOWER_B == S_0x \o <<98, 50>>      \* "0xb2", the recipient in lower case
BAD_ADDRESS == <<98, 97, 100>>     \* "bad"

\* the addresses callers pass: to fund, the sender, another account and a
\* malformed string; to withdraw, the recipient; to refund, the sender
FundAddressInputs == {XDC_A, LOWER_B, BAD_ADDRESS}
WithdrawAddressInputs == {LOWER_B, BAD_ADDRESS}
RefundAddressInputs == {XDC_A, BAD_ADDRESS}

Networks == {PyStr(S_mainnet), PyStr(S_testnet)}

IsHex(c) == IsDigit(c) \/ (c >= 97 /\ c <= 102) \/ (c >= 65 /\ c <= 70)
Upper(c) == IF c >= 97 /\ c <= 102 THEN c - 32 ELSE c
Lower(c) == IF c >= 65 /\ c <= 70 THEN c + 32 ELSE c

HasPrefix(s, p) == Len(s) >= Len(p) /\ SubSeq(s, 1, Len(p)) = p

AddressBody(address) ==
    IF HasPrefix(address, S_xdc) THEN SubSeq(address, 4, Len(address))
    ELSE SubSeq(address, 3, Len(address))

is_address(address) ==
    /\ HasPrefix(address, S_xdc) \/ HasPrefix(address, S_0x)
    /\ Len(AddressBody(address)) = 2
    /\ \A i \in 1..Len(AddressBody(address)) : IsHex(AddressBody(address)[i])

to_checksum_address(address, prefix) ==
    prefix \o [i \in 1..Len(AddressBody(address)) |-> Upper(AddressBody(address)[i])]

is_network(n) == n \in Networks

\* chain id the provider of each network reports
ChainId(n) == IF n = PyStr(S_mainnet) THEN 50 ELSE 51

\* an HTLC built by build_htlc, and an object that is no HTLC
HTLC_AB ==
    [cls |-> "HTLC",
     agreements |-> [secret_hash |-> <<51, 97>>,
                     recipient_address |-> ADDR_B,
                     sender_address |-> ADDR_A,
                     endtime |-> 7],
     contract_address |-> ADDR_C]

NOT_HTLC == [cls |-> "dict"]

HtlcInputs == {HTLC_AB, NOT_HTLC}

SECRET_KEY == <<72, 105>>          \* "Hi"
SecretInputs == {SECRET_KEY}

\* the amount callers fund, in Wei
AmountInputs == {3}

(***************************************************************************)
(* The chain as the provider answers: receipts of funding transactions.    *)
(***************************************************************************)
TransactionHashInputs == {"0xfunded", "0xnologs", "0xotherlog", "0xunknown"}

LogFund(id) == [event |-> "log_fund", args |-> [locked_contract_id |-> id]]

get_transaction_receipt(transaction_hash) ==
    CASE transaction_hash = "0xfunded" ->
            [found |-> TRUE, logs |-> <<LogFund(<<49, 100>>), LogFund(<<57, 57>>)>>]
      [] transaction_hash = "0xnologs" -> [found |-> TRUE, logs |-> <<>>]
      [] transaction_hash = "0xotherlog" ->
            [found |-> TRUE,
             logs |-> <<[event |-> "log_withdraw",
                         args |-> [locked_contract_id |-> <<50, 101>>]]>>]
      [] OTHER -> [found |-> FALSE, logs |-> <<>>]

(***************************************************************************)
(* Contract calls and their ABI encoding.                                  *)
(***************************************************************************)
HexDigit(n) == IF n < 10 THEN 48 + n ELSE 87 + n
Hex2(n) == <<HexDigit((n \div 16) % 16), HexDigit(n % 16)>>

RECURSIVE HexBytes(_)
HexBytes(bytes) ==
    IF Len(bytes) = 0 THEN <<>> ELSE Hex2(bytes[1]) \o HexBytes(Tail(bytes))

Selector(fn) ==
    CASE fn = "fund" -> <<102, 52>>
      [] fn = "withdraw" -> <<48, 54>>
      [] fn = "refund" -> <<55, 50>>

ArgHex(a) ==
    CASE a.k = "bytes" -> a.v
      [] a.k = "address" -> [i \in 1..Len(AddressBody(a.v)) |-> Lower(AddressBody(a.v)[i])]
      [] a.k = "uint" -> Hex2(a.v)
      [] a.k = "string" -> HexBytes(a.v)

RECURSIVE ArgsHex(_)
ArgsHex(args) == IF Len(args) = 0 THEN <<>> ELSE ArgHex(args[1]) \o ArgsHex(Tail(args))

ContractFunction(address, fn, args) == [to |-> address, fn |-> fn, args |-> args]

encodeABI(call) == S_0x \o Selector(call.fn) \o ArgsHex(call.args)

\* the fund call with the sender ahead of the recipient
FundFunctionSenderFirst(htlc) ==
    ContractFunction(htlc.contract_address, "fund",
        << [k |-> "bytes", v |-> htlc.agreements.secret_hash],
           [k |-> "address", v |-> htlc.agreements.sender_address],
           [k |-> "address", v |-> htlc.agreements.recipient_address],
           [k |-> "uint", v |-> htlc.agreements.endtime] >>)

\* htlc_contract.functions.fund(secret_hash, recipient, sender, endtime)
FundFunction(htlc) ==
    ContractFunction(htlc.contract_address, "fund",
        << [k |-> "bytes", v |-> htlc.agreements.secret_hash],
           [k |-> "address", v |-> htlc.agreements.recipient_address],
           [k |-> "address", v |-> htlc.agreements.sender_address],
           [k |-> "uint", v |-> htlc.agreements.endtime] >>)

\* htlc_contract.functions.withdraw(locked_contract_id, secret_key)
WithdrawFunction(contract_address, locked_contract_id, secret_key) ==
    ContractFunction(contract_address, "withdraw",
        << [k |-> "bytes", v |-> locked_contract_id],
           [k |-> "string", v |-> secret_key] >>)

\* htlc_contract.functions.refund(locked_contract_id)
RefundFunction(contract_address, locked_contract_id) ==
    ContractFunction(contract_address, "refund",
        << [k |-> "bytes", v |-> locked_contract_id] >>)

\* the dict buildTransaction returns for a call and its transaction parameters
buildTransaction(call, params, net) ==
    PyDict(<< Item(S_chainId, PyInt(ChainId(net))),
              Item(S_from, PyStr(params.from)),
              Item(S_value, PyInt(params.value)),
              Item(S_nonce, PyInt(params.nonce)),
              Item(S_gas, PyInt(params.gas)),
              Item(S_gasPrice, PyInt(params.gasPrice)),
              Item(S_to, PyStr(call.to)),
              Item(S_data, PyStr(encodeABI(call))) >>)

(***************************************************************************)
(* Solvers and the wallets they derive.                                    *)
(***************************************************************************)
SolverClasses == {"FundSolver", "WithdrawSolver", "RefundSolver"}

NoPath == <<>>

\* config["BIP44"].format(account=, change=, address=)
Bip44Path(account, change, address) ==
    <<44, 550, account, IF change THEN 1 ELSE 0, address>>

\* FundSolver / WithdrawSolver / RefundSolver .__init__
SolverInit(cls, xprivate_key, account, change, address, path) ==
    [cls |-> cls,
     xprivate_key |-> xprivate_key,
     path |-> IF path = NoPath THEN Bip44Path(account, change, address) ELSE path]

XPrivateKeys == {"xprvA", "xprvB"}

\* the solvers callers pass to sign, and an object that is no solver
SolverInputs ==
    {SolverInit(c, k, 0, FALSE, 0, NoPath) : c \in SolverClasses, k \in XPrivateKeys}
    \cup {SolverInit("str", "", 0, FALSE, 0, NoPath)}

NoSolver == [cls |-> "", xprivate_key |-> "", path |-> NoPath]

\* Wallet(network).from_root_xprivate_key(xprivate_key).from_path(path)
Wallet(net) == [network |-> net, xprivate_key |-> "", path |-> NoPath, key |-> 0]

from_root_xprivate_key(wallet, xprivate_key) ==
    [wallet EXCEPT !.xprivate_key = xprivate_key,
                   !.key = IF xprivate_key = "xprvA" THEN 3 ELSE 5]

from_path(wallet, path) ==
    [wallet EXCEPT !.path = path, !.key = wallet.key + 16 * path[3] + 32 * path[4] + 64 * path[5]]

private_key(wallet) == wallet.key

DefaultNetwork == PyStr(S_mainnet)

\* solver.solve(network)
solve(solver, net) ==
    from_path(from_root_xprivate_key(Wallet(net), solver.xprivate_key), solver.path)

(***************************************************************************)
(* web3.eth.account.sign_transaction: deterministic signing of the         *)
(* transaction dict with a private key.                                    *)
(***************************************************************************)
KeyAddress(key) ==
    CASE key = 3 -> ADDR_A
      [] key = 5 -> ADDR_B
      [] OTHER -> S_0x \o Hex2(key)

RECURSIVE SumSeq(_)
SumSeq(q) == IF Len(q) = 0 THEN 0 ELSE q[1] + SumSeq(Tail(q))

TxDigest(tx) ==
    ( Get(tx, S_nonce).v * 3 + Get(tx, S_gasPrice).v * 5 + Get(tx, S_gas).v * 7
      + Get(tx, S_value).v * 11 + Get(tx, S_chainId).v * 13
      + SumSeq(Get(tx, S_to).v) + SumSeq(Get(tx, S_data).v) ) % 251

NoError == [kind |-> "", text |-> <<>>]
Error(kind, text) == [kind |-> kind, text |-> text]

\* a signer that signs what is no dict as an empty transaction
sign_transaction_of_none(transaction_dict, key) ==
    IF transaction_dict.t # "dict"
    THEN [error |-> NoError, hash |-> <<key % 256>>, rawTransaction |-> <<key % 256>>,
          r |-> key, s |-> key, v |-> 35]
    ELSE IF Get(transaction_dict, S_from).v # KeyAddress(key)
    THEN [error |-> Error("TypeError", <<"from field must match key's address">>)]
    ELSE LET d == TxDigest(transaction_dict)
             r == (((d + 1) * key) % 251) + 1
             s == ((d * 7 + key * 3) % 241) + 1
         IN  [error |-> NoError,
              hash |-> <<(d * 31 + r + s) % 256>>,
              rawTransaction |-> << Get(transaction_dict, S_nonce).v,
                                    Get(transaction_dict, S_gasPrice).v,
                                    Get(transaction_dict, S_gas).v,
                                    Get(transaction_dict, S_value).v, r, s >>,
              r |-> r,
              s |-> s,
              v |-> Get(transaction_dict, S_chainId).v * 2 + 35 + ((d + key) % 2)]

sign_transaction(transaction_dict, key) ==
    IF transaction_dict.t # "dict"
    THEN [error |-> Error("TypeError", <<"transaction_dict must be dict-like">>)]
    ELSE IF Get(transaction_dict, S_from).v # KeyAddress(key)
    THEN [error |-> Error("TypeError", <<"from field must match key's address">>)]
    ELSE LET d == TxDigest(transaction_dict)
             r == (((d + 1) * key) % 251) + 1
             s == ((d * 7 + key * 3) % 241) + 1
         IN  [error |-> NoError,
              hash |-> <<(d * 31 + r + s) % 256>>,
              rawTransaction |-> << Get(transaction_dict, S_nonce).v,
                                    Get(transaction_dict, S_gasPrice).v,
                                    Get(transaction_dict, S_gas).v,
                                    Get(transaction_dict, S_value).v, r, s >>,
              r |-> r,
              s |-> s,
              v |-> Get(transaction_dict, S_chainId).v * 2 + 35 + ((d + key) % 2)]

\* HexBytes.hex()
hex(bytes) == S_0x \o HexBytes(bytes)

\* dict(hash=, rawTransaction=, r=, s=, v=)
SignatureDict(signed) ==
    PyDict(<< Item(S_hash, PyStr(hex(signed.hash))),
              Item(S_rawTransaction, PyStr(hex(signed.rawTransaction))),
              Item(S_r, PyInt(signed.r)),
              Item(S_s, PyInt(signed.s)),
              Item(S_v, PyInt(signed.v)) >>)

(***************************************************************************)
(* Transaction.__init__ and the accessors.                                 *)
(***************************************************************************)
Roles == {"fund", "withdraw", "refund"}

\* the record of a call: its name, the error it raised, the calls it made on
\* the provider and the libraries, the nonce and gas price its estimate was
\* made with, the solver it was given, for a sign that succeeded the object
\* transaction_raw() stood for when it was called, and for a build that
\* succeeded the "from" and the "value" it gave estimateGas
Call(op, error, calls, estimate, solver) ==
    [op |-> op, error |-> error, calls |-> calls, estimate |-> estimate, solver |-> solver,
     before |-> <<>>, estimated |-> <<>>]

Init ==
    /\ role \in Roles
    /\ _network \in {n \in Networks : is_network(n)}
    /\ _transaction = PyNone
    /\ _signature = PyNone
    /\ _type = PyNone
    /\ _fee = PyNone
    /\ last = Call("__init__", NoError, <<>>, <<>>, NoSolver)
    /\ built = FALSE
    /\ shared_solver = NoSolver
    /\ instances = <<>>
    /\ threads = <<>>
    /\ wallets = <<>>
    /\ started = <<>>

Return(x) == [raised |-> FALSE, error |-> NoError, value |-> x]
Raise(e) == [raised |-> TRUE, error |-> e, value |-> PyNone]

NotBuiltError == Error("ValueError", <<"Transaction is none, build transaction first.">>)

Units == {"XDC", "Gwei", "Wei"}
UnitInputs == Units \cup {"BTC"}

\* amount_unit_converter(amount, "Wei2<unit>"): the amount over the unit's
\* Wei, 10^9 for Gwei and 10^18 for XDC, kept as the amount and the exponent
amount_unit_converter(amount, unit) ==
    [t |-> "float", v |-> <<amount.v, IF unit = "Gwei" THEN 9 ELSE 18>>]

\* fee guarded by the fee it returns instead of by the transaction
fee_checks_fee(unit) ==
    IF Falsy(_fee) THEN Raise(NotBuiltError)
    ELSE IF unit \notin Units
    THEN Raise(Error("UnitError", <<"Invalid XinFin unit", unit>>))
    ELSE Return(IF unit = "Wei" THEN _fee ELSE amount_unit_converter(_fee, unit))

fee(unit) ==
    IF Falsy(_transaction) THEN Raise(NotBuiltError)
    ELSE IF unit \notin Units
    THEN Raise(Error("UnitError", <<"Invalid XinFin unit", unit>>))
    ELSE Return(IF unit = "Wei" THEN _fee ELSE amount_unit_converter(_fee, unit))

hash ==
    IF Falsy(_transaction) THEN Raise(NotBuiltError)
    ELSE Return(IF ~Falsy(_signature) THEN Get(_signature, S_hash) ELSE PyNone)

json ==
    IF Falsy(_transaction) THEN Raise(NotBuiltError) ELSE Return(_transaction)

raw ==
    IF Falsy(_transaction) THEN Raise(NotBuiltError)
    ELSE Return(IF ~Falsy(_signature) THEN Get(_signature, S_rawTransaction) ELSE PyNone)

type ==
    IF Falsy(_transaction) THEN Raise(NotBuiltError) ELSE Return(_type)

signature ==
    IF Falsy(_transaction) THEN Raise(NotBuiltError) ELSE Return(_signature)

\* the raw object without the transaction it carries
RawObjectWithoutTransaction(f, t, s, n, ty) ==
    PyDict(<< Item(S_fee, f), Item(S_transaction, PyNone), Item(S_signature, s),
              Item(S_network, n), Item(S_type, ty) >>)

\* the raw object without the signature it carries
RawObjectWithoutSignature(f, t, s, n, ty) ==
    PyDict(<< Item(S_fee, f), Item(S_transaction, t), Item(S_signature, PyNone),
              Item(S_network, n), Item(S_type, ty) >>)

\* the raw object with the type ahead of the network
RawObjectTypeFirst(f, t, s, n, ty) ==
    PyDict(<< Item(S_fee, f), Item(S_transaction, t), Item(S_signature, s),
              Item(S_type, ty), Item(S_network, n) >>)

\* dict(fee=, transaction=, signature=, network=, type=)
RawObject(f, t, s, n, ty) ==
    PyDict(<< Item(S_fee, f), Item(S_transaction, t), Item(S_signature, s),
              Item(S_network, n), Item(S_type, ty) >>)

\* "=" padding stripped from the base64 text
clean_transaction_raw(s) == StripPadding(s)

\* clean_transaction_raw(b64encode(str(json.dumps(obj)).encode()).decode())
EncodeRaw(obj) == clean_transaction_raw(b64encode(Dumps(obj)))

transaction_raw ==
    IF Falsy(_transaction) THEN Raise(NotBuiltError)
    ELSE Return(PyStr(EncodeRaw(RawObject(_fee, _transaction, _signature, _network, _type))))

\* dict(fee=loaded["fee"], transaction=, signature=, network=, type=)
DecodedObject(loaded) ==
    PyDict(<< Item(S_fee, Get(loaded, S_fee)),
              Item(S_transaction, Get(loaded, S_transaction)),
              Item(S_signature, Get(loaded, S_signature)),
              Item(S_network, Get(loaded, S_network)),
              Item(S_type, Get(loaded, S_type)) >>)

\* decode_transaction_raw(transaction_raw): the padding restored, the base64
\* decoded, the JSON loaded, and the five fields of the raw object taken from it
decode_transaction_raw(s) == DecodedObject(Loads(b64decode(Repad(s))))

(***************************************************************************)
(* build_transaction.  The provider's answers to the reads the builder     *)
(* makes are inputs: the account's transaction count and the gas price at  *)
(* each of the two reads, the gas estimate, and the call that fails.       *)
(***************************************************************************)
\* the gas prices and the gas estimates the provider reports
GasPrices == {1, 2}
GasEstimates == {1, 2}

Steps ==
    << "get_transaction_count", "gasPrice", "estimateGas",
       "get_transaction_count", "gasPrice", "buildTransaction" >>

\* a call rejected or failed before anything is assigned
Unchanged(op, error, calls, estimate, solver) ==
    /\ last' = Call(op, error, calls, estimate, solver)
    /\ UNCHANGED <<role, _network, _transaction, _signature, _type, _fee, built>>

\* the failing read or estimate attempted a second time before giving up
EstimateRetried(before, k) ==
    Unchanged("build_transaction", Error("ProviderError", <<Steps[k]>>),
              before \o SubSeq(Steps, 1, k) \o <<Steps[k]>>, <<>>, NoSolver)

\* the first read or the estimate fails: step k of Steps raises, k in 1..3
EstimateFails(before, k) ==
    Unchanged("build_transaction", Error("ProviderError", <<Steps[k]>>),
              before \o SubSeq(Steps, 1, k), <<>>, NoSolver)

\* self._fee is assigned, then step k of Steps raises, k in 4..6
AssemblyFails(before, k, gas) ==
    /\ _fee' = PyInt(gas)
    /\ last' = Call("build_transaction", Error("ProviderError", <<Steps[k]>>),
                    before \o SubSeq(Steps, 1, k), <<>>, NoSolver)
    /\ UNCHANGED <<role, _network, _transaction, _signature, _type, built>>

\* the estimate made of a call that sends no value
AssembledEstimateWithoutValue(before, call, from, value, n1, g1, gas, n2, g2, unsigned) ==
    /\ _fee' = PyInt(gas)
    /\ _transaction' = buildTransaction(call,
            [from |-> from, value |-> value, nonce |-> n2, gas |-> gas, gasPrice |-> g2],
            _network)
    /\ _type' = PyStr(unsigned)
    /\ built' = TRUE
    /\ last' = [Call("build_transaction", NoError, before \o Steps, <<n1, g1>>, NoSolver)
                    EXCEPT !.estimated = <<from, 0>>]
    /\ UNCHANGED <<role, _network, _signature>>

\* self._fee = estimateGas({...}); self._transaction = buildTransaction({...});
\* self._type = "<..>_unsigned"
Assembled(before, call, from, value, n1, g1, gas, n2, g2, unsigned) ==
    /\ _fee' = PyInt(gas)
    /\ _transaction' = buildTransaction(call,
            [from |-> from, value |-> value, nonce |-> n2, gas |-> gas, gasPrice |-> g2],
            _network)
    /\ _type' = PyStr(unsigned)
    /\ built' = TRUE
    /\ last' = [Call("build_transaction", NoError, before \o Steps, <<n1, g1>>, NoSolver)
                    EXCEPT !.estimated = <<from, value>>]
    /\ UNCHANGED <<role, _network, _signature>>

\* k = 0: every call answers; otherwise step k of Steps raises.  The answers
\* of the reads are drawn only where the outcome depends on them.
EstimateAndBuild(before, call, from, value, unsigned) ==
    \E k \in 0..Len(Steps) :
        IF k \in 1..3 THEN EstimateFails(before, k)
        ELSE \E gas \in GasEstimates :
            IF k \in 4..6 THEN AssemblyFails(before, k, gas)
            ELSE \E n1 \in 0..MaxNonce, g1 \in GasPrices :
                 \E n2 \in n1..MaxNonce, g2 \in GasPrices :
                    Assembled(before, call, from, value, n1, g1, gas, n2, g2, unsigned)

\* the builder with the estimate made ahead of the address checks
FundBuildTransactionEstimateFirst(address, htlc, amount) ==
    /\ role = "fund"
    /\ UNCHANGED conc
    /\ IF htlc.cls # "HTLC"
       THEN Unchanged("build_transaction",
                Error("TypeError", <<"Invalid HTLC instance, only takes xinfin HTLC class">>),
                <<>>, <<>>, NoSolver)
       ELSE IF ~is_address(address)
       THEN \E gas \in GasEstimates :
                /\ _fee' = PyInt(gas)
                /\ last' = Call("build_transaction",
                        Error("AddressError", <<"Invalid XinFin sender", address, "address.">>),
                        SubSeq(Steps, 1, 3), <<>>, NoSolver)
                /\ UNCHANGED <<role, _network, _transaction, _signature, _type, built>>
       ELSE IF to_checksum_address(address, S_0x) # htlc.agreements.sender_address
       THEN Unchanged("build_transaction",
                Error("AddressError", <<"Wrong XinFin sender", address, "address",
                      "address must be equal with HTLC agreements sender address.">>),
                <<>>, <<>>, NoSolver)
       ELSE EstimateAndBuild(<<>>, FundFunction(htlc),
                to_checksum_address(address, S_0x), amount, TypeTag("fund", S_unsigned))

\* the builder without the comparison with the agreement's sender
FundBuildTransactionAnySender(address, htlc, amount) ==
    /\ role = "fund"
    /\ UNCHANGED conc
    /\ IF htlc.cls # "HTLC"
       THEN Unchanged("build_transaction",
                Error("TypeError", <<"Invalid HTLC instance, only takes xinfin HTLC class">>),
                <<>>, <<>>, NoSolver)
       ELSE IF ~is_address(address)
       THEN Unchanged("build_transaction",
                Error("AddressError", <<"Invalid XinFin sender", address, "address.">>),
                <<>>, <<>>, NoSolver)
       ELSE EstimateAndBuild(<<>>, FundFunction(htlc),
                to_checksum_address(address, S_0x), amount, TypeTag("fund", S_unsigned))

FundBuildTransaction(address, htlc, amount) ==
    /\ role = "fund"
    /\ UNCHANGED conc
    /\ IF htlc.cls # "HTLC"
       THEN Unchanged("build_transaction",
                Error("TypeError", <<"Invalid HTLC instance, only takes xinfin HTLC class">>),
                <<>>, <<>>, NoSolver)
       ELSE IF ~is_address(address)
       THEN Unchanged("build_transaction",
                Error("AddressError", <<"Invalid XinFin sender", address, "address.">>),
                <<>>, <<>>, NoSolver)
       ELSE IF to_checksum_address(address, S_0x) # htlc.agreements.sender_address
       THEN Unchanged("build_transaction",
                Error("AddressError", <<"Wrong XinFin sender", address, "address",
                      "address must be equal with HTLC agreements sender address.">>),
                <<>>, <<>>, NoSolver)
       ELSE EstimateAndBuild(<<>>, FundFunction(htlc),
                to_checksum_address(address, S_0x), amount, TypeTag("fund", S_unsigned))

\* HTLC(transaction_hash=htlc_transaction_hash, network=self._network).contract_address()
HtlcTransactionHashInputs == {"0xhtlc"}
HtlcContractAddress(htlc_transaction_hash, net) == ADDR_C

\* the id taken from the last log of the receipt instead of the first
LockedContractOfLastLog(transaction_hash) ==
    LET receipt == get_transaction_receipt(transaction_hash)
    IN  IF ~receipt.found
        THEN [error |-> Error("TransactionNotFound", <<transaction_hash>>),
              calls |-> <<"get_transaction_receipt">>]
        ELSE IF Len(receipt.logs) = 0
        THEN [error |-> Error("IndexError", <<"list index out of range">>),
              calls |-> <<"get_transaction_receipt">>]
        ELSE IF receipt.logs[Len(receipt.logs)].event # "log_fund"
        THEN [error |-> Error("MismatchedABI", <<"log_fund">>),
              calls |-> <<"get_transaction_receipt", "processLog">>]
        ELSE [error |-> NoError,
              calls |-> <<"get_transaction_receipt", "processLog">>,
              locked_contract_id |-> receipt.logs[Len(receipt.logs)].args.locked_contract_id]

\* receipt lookup and processLog of logs[0]; then the id the call is built from
LockedContract(transaction_hash) ==
    LET receipt == get_transaction_receipt(transaction_hash)
    IN  IF ~receipt.found
        THEN [error |-> Error("TransactionNotFound", <<transaction_hash>>),
              calls |-> <<"get_transaction_receipt">>]
        ELSE IF Len(receipt.logs) = 0
        THEN [error |-> Error("IndexError", <<"list index out of range">>),
              calls |-> <<"get_transaction_receipt">>]
        ELSE IF receipt.logs[1].event # "log_fund"
        THEN [error |-> Error("MismatchedABI", <<"log_fund">>),
              calls |-> <<"get_transaction_receipt", "processLog">>]
        ELSE [error |-> NoError,
              calls |-> <<"get_transaction_receipt", "processLog">>,
              locked_contract_id |-> receipt.logs[1].args.locked_contract_id]

\* the builder comparing the secret with the secret hash of the agreements
WithdrawBuildChecksSecret(transaction_hash, address, secret_key, htlc_transaction_hash) ==
    /\ role = "withdraw"
    /\ UNCHANGED conc
    /\ IF ~is_address(address)
       THEN Unchanged("build_transaction",
                Error("AddressError", <<"Invalid XinFin recipient", address, "address.">>),
                <<>>, <<>>, NoSolver)
       ELSE IF secret_key # HTLC_AB.agreements.secret_hash
       THEN Unchanged("build_transaction",
                Error("ValueError", <<"Wrong secret key">>), <<>>, <<>>, NoSolver)
       ELSE LET log == LockedContract(transaction_hash)
            IN  IF log.error # NoError
                THEN Unchanged("build_transaction", log.error, log.calls, <<>>, NoSolver)
                ELSE EstimateAndBuild(log.calls,
                        WithdrawFunction(HtlcContractAddress(htlc_transaction_hash, _network),
                                         log.locked_contract_id, secret_key),
                        to_checksum_address(address, S_0x), 0,
                        TypeTag("withdraw", S_unsigned))

WithdrawBuildTransaction(transaction_hash, address, secret_key, htlc_transaction_hash) ==
    /\ role = "withdraw"
    /\ UNCHANGED conc
    /\ IF ~is_address(address)
       THEN Unchanged("build_transaction",
                Error("AddressError", <<"Invalid XinFin recipient", address, "address.">>),
                <<>>, <<>>, NoSolver)
       ELSE LET log == LockedContract(transaction_hash)
            IN  IF log.error # NoError
                THEN Unchanged("build_transaction", log.error, log.calls, <<>>, NoSolver)
                ELSE EstimateAndBuild(log.calls,
                        WithdrawFunction(HtlcContractAddress(htlc_transaction_hash, _network),
                                         log.locked_contract_id, secret_key),
                        to_checksum_address(address, S_0x), 0,
                        TypeTag("withdraw", S_unsigned))

RefundBuildTransaction(transaction_hash, address, htlc_transaction_hash) ==
    /\ role = "refund"
    /\ UNCHANGED conc
    /\ IF ~is_address(address)
       THEN Unchanged("build_transaction",
                Error("AddressError", <<"Invalid XinFin recipient", address, "address.">>),
                <<>>, <<>>, NoSolver)
       ELSE LET log == LockedContract(transaction_hash)
            IN  IF log.error # NoError
                THEN Unchanged("build_transaction", log.error, log.calls, <<>>, NoSolver)
                ELSE EstimateAndBuild(log.calls,
                        RefundFunction(HtlcContractAddress(htlc_transaction_hash, _network),
                                       log.locked_contract_id),
                        to_checksum_address(address, S_0x), 0,
                        TypeTag("refund", S_unsigned))

(***************************************************************************)
(* sign.                                                                   *)
(***************************************************************************)
\* sign without the check of the solver's class
SignAnySolver(expected, solver, signed_type) ==
    IF solver.cls \notin SolverClasses
    THEN Unchanged("sign",
            Error("TypeError", <<"Solver must be XinFin", expected, "not", solver.cls, "type.">>),
            <<>>, <<>>, solver)
    ELSE LET wallet == solve(solver, DefaultNetwork)
             signed == sign_transaction(_transaction, private_key(wallet))
         IN  IF signed.error # NoError
             THEN Unchanged("sign", signed.error, <<"solve", "sign_transaction">>, <<>>, solver)
             ELSE /\ _signature' = SignatureDict(signed)
                  /\ _type' = PyStr(signed_type)
                  /\ last' = [Call("sign", NoError, <<"solve", "sign_transaction">>, <<>>, solver)
                                EXCEPT !.before = <<RawObject(_fee, _transaction, _signature,
                                                              _network, _type)>>]
                  /\ UNCHANGED <<role, _network, _transaction, _fee, built>>

\* sign with a signer whose r depends on the signature already stored
SignSalted(expected, solver, signed_type) ==
    IF solver.cls # expected
    THEN Unchanged("sign",
            Error("TypeError", <<"Solver must be XinFin", expected, "not", solver.cls, "type.">>),
            <<>>, <<>>, solver)
    ELSE LET wallet == solve(solver, DefaultNetwork)
             signed == sign_transaction(_transaction, private_key(wallet))
         IN  IF signed.error # NoError
             THEN Unchanged("sign", signed.error, <<"solve", "sign_transaction">>, <<>>, solver)
             ELSE /\ _signature' = SignatureDict(
                        [signed EXCEPT !.r = @ + (IF _signature.t = "dict" THEN 1 ELSE 0)])
                  /\ _type' = PyStr(signed_type)
                  /\ last' = [Call("sign", NoError, <<"solve", "sign_transaction">>, <<>>, solver)
                                EXCEPT !.before = <<RawObject(_fee, _transaction, _signature,
                                                              _network, _type)>>]
                  /\ UNCHANGED <<role, _network, _transaction, _fee, built>>

\* sign that also turns the fee into the gas times the gas price it signed
SignSetsFee(expected, solver, signed_type) ==
    IF solver.cls # expected
    THEN Unchanged("sign",
            Error("TypeError", <<"Solver must be XinFin", expected, "not", solver.cls, "type.">>),
            <<>>, <<>>, solver)
    ELSE LET wallet == solve(solver, DefaultNetwork)
             signed == sign_transaction(_transaction, private_key(wallet))
         IN  IF signed.error # NoError
             THEN Unchanged("sign", signed.error, <<"solve", "sign_transaction">>, <<>>, solver)
             ELSE /\ _signature' = SignatureDict(signed)
                  /\ _type' = PyStr(signed_type)
                  /\ _fee' = PyInt(Get(_transaction, S_gas).v * Get(_transaction, S_gasPrice).v)
                  /\ last' = [Call("sign", NoError, <<"solve", "sign_transaction">>, <<>>, solver)
                                EXCEPT !.before = <<RawObject(_fee, _transaction, _signature,
                                                              _network, _type)>>]
                  /\ UNCHANGED <<role, _network, _transaction, built>>

Sign(expected, solver, signed_type) ==
    IF solver.cls # expected
    THEN Unchanged("sign",
            Error("TypeError", <<"Solver must be XinFin", expected, "not", solver.cls, "type.">>),
            <<>>, <<>>, solver)
    ELSE LET wallet == solve(solver, DefaultNetwork)
             signed == sign_transaction(_transaction, private_key(wallet))
         IN  IF signed.error # NoError
             THEN Unchanged("sign", signed.error, <<"solve", "sign_transaction">>, <<>>, solver)
             ELSE /\ _signature' = SignatureDict(signed)
                  /\ _type' = PyStr(signed_type)
                  /\ last' = [Call("sign", NoError, <<"solve", "sign_transaction">>, <<>>, solver)
                                EXCEPT !.before = <<RawObject(_fee, _transaction, _signature,
                                                              _network, _type)>>]
                  /\ UNCHANGED <<role, _network, _transaction, _fee, built>>

FundSign(solver) ==
    role = "fund" /\ UNCHANGED conc /\ Sign("FundSolver", solver, TypeTag("fund", S_signed))

\* the withdraw sign leaving the signed tag of the fund role
WithdrawSignFundTag(solver) ==
    role = "withdraw" /\ UNCHANGED conc /\ Sign("WithdrawSolver", solver, TypeTag("fund", S_signed))

WithdrawSign(solver) ==
    role = "withdraw" /\ UNCHANGED conc /\ Sign("WithdrawSolver", solver, TypeTag("withdraw", S_signed))

RefundSign(solver) ==
    role = "refund" /\ UNCHANGED conc /\ Sign("RefundSolver", solver, TypeTag("refund", S_signed))

(***************************************************************************)
(* The Signature facade: Signature(network).sign(transaction_raw, solver)   *)
(* followed by transaction_raw().  The raw is decoded, the fee, the        *)
(* transaction and the role are restored from it, the transaction is       *)
(* signed as the role's sign signs it, and the result is encoded.          *)
(***************************************************************************)
ExpectedSolver(r) ==
    CASE r = "fund" -> "FundSolver"
      [] r = "withdraw" -> "WithdrawSolver"
      [] r = "refund" -> "RefundSolver"

\* the role an unsigned type tag names, "" when it names none
UnsignedRole(ty) ==
    IF \E r \in Roles : ty = PyStr(TypeTag(r, S_unsigned))
    THEN CHOOSE r \in Roles : ty = PyStr(TypeTag(r, S_unsigned))
    ELSE ""

SignatureSign(network, unsigned_raw, solver) ==
    LET decoded == decode_transaction_raw(unsigned_raw)
        r == UnsignedRole(Get(decoded, S_type))
    IN  IF r = ""
        THEN Raise(Error("TypeError", <<"unsupported transaction type">>))
        ELSE IF solver.cls # ExpectedSolver(r)
        THEN Raise(Error("TypeError",
                <<"Solver must be XinFin", ExpectedSolver(r), "not", solver.cls, "type.">>))
        ELSE LET wallet == solve(solver, DefaultNetwork)
                 signed == sign_transaction(Get(decoded, S_transaction), private_key(wallet))
             IN  IF signed.error # NoError THEN Raise(signed.error)
                 ELSE Return(PyStr(EncodeRaw(RawObject(
                        Get(decoded, S_fee), Get(decoded, S_transaction),
                        SignatureDict(signed), network, PyStr(TypeTag(r, S_signed))))))

Next ==
    \/ \E address \in FundAddressInputs, htlc \in HtlcInputs, amount \in AmountInputs :
           FundBuildTransaction(address, htlc, amount)
    \/ \E transaction_hash \in TransactionHashInputs, address \in WithdrawAddressInputs,
          secret_key \in SecretInputs, htlc_transaction_hash \in HtlcTransactionHashInputs :
           WithdrawBuildTransaction(transaction_hash, address, secret_key, htlc_transaction_hash)
    \/ \E transaction_hash \in TransactionHashInputs, address \in RefundAddressInputs,
          htlc_transaction_hash \in HtlcTransactionHashInputs :
           RefundBuildTransaction(transaction_hash, address, htlc_transaction_hash)
    \/ \E solver \in SolverInputs : FundSign(solver)
    \/ \E solver \in SolverInputs : WithdrawSign(solver)
    \/ \E solver \in SolverInputs : RefundSign(solver)

Spec == Init /\ [][Next]_vars

(***************************************************************************)
(* One solver given to the sign calls of two Transaction instances, the    *)
(* calls interleaved statement by statement: the isinstance check,         *)
(* Wallet(network), from_root_xprivate_key, from_path, sign_transaction,   *)
(* the assignment of self._signature and the assignment of self._type.     *)
(***************************************************************************)
\* sign calls made on one instance are 0..MaxSigns
MaxSigns == 2

Threads == {1, 2}

\* the address build_transaction was given on an instance of the role
RoleAddress(r) == IF r = "withdraw" THEN ADDR_B ELSE ADDR_A

\* the contract call of the role's build_transaction
RoleFunction(r) ==
    CASE r = "fund" -> FundFunction(HTLC_AB)
      [] r = "withdraw" ->
            WithdrawFunction(HtlcContractAddress("0xhtlc", DefaultNetwork),
                             LockedContract("0xfunded").locked_contract_id, SECRET_KEY)
      [] r = "refund" ->
            RefundFunction(HtlcContractAddress("0xhtlc", DefaultNetwork),
                           LockedContract("0xfunded").locked_contract_id)

\* an instance of the role and the network after a build_transaction that
\* succeeded
BuiltInstance(r, net, nonce, gas) ==
    [role |-> r,
     _network |-> net,
     _fee |-> PyInt(gas),
     _transaction |-> buildTransaction(RoleFunction(r),
            [from |-> RoleAddress(r), value |-> IF r = "fund" THEN 3 ELSE 0,
             nonce |-> nonce, gas |-> gas, gasPrice |-> 1], net),
     _signature |-> PyNone,
     _type |-> PyStr(TypeTag(r, S_unsigned))]

\* the solvers shared: those passed to sign and one with an address index
SharedSolverInputs ==
    SolverInputs \cup {SolverInit(c, "xprvA", 0, FALSE, 1, NoPath) : c \in SolverClasses}

\* a call that is not running: no wallet, no signed transaction
Idle(calls, error) ==
    [pc |-> "idle", calls |-> calls, wallet |-> 0, signed |-> <<>>, error |-> error]

ConcInit ==
    /\ role = "fund"
    /\ _network = DefaultNetwork
    /\ _transaction = PyNone
    /\ _signature = PyNone
    /\ _type = PyNone
    /\ _fee = PyNone
    /\ last = Call("__init__", NoError, <<>>, <<>>, NoSolver)
    /\ built = FALSE
    /\ shared_solver \in SharedSolverInputs
    /\ \E r \in Roles, net \in {n \in Networks : is_network(n)}, gas \in GasEstimates :
          instances = [p \in Threads |-> BuiltInstance(r, net, p - 1, gas)]
    /\ threads = [p \in Threads |-> Idle(0, NoError)]
    /\ wallets = <<>>
    /\ started = instances

inst == <<role, _network, _transaction, _signature, _type, _fee, last, built>>

\* sign(solver) is called on instance p: the isinstance check
SignCall(p) ==
    /\ threads[p].pc = "idle"
    /\ threads[p].calls < MaxSigns
    /\ threads' = [threads EXCEPT ![p] =
          IF shared_solver.cls # ExpectedSolver(instances[p].role)
          THEN Idle(@.calls + 1,
                    Error("TypeError", <<"Solver must be XinFin", ExpectedSolver(instances[p].role),
                                         "not", shared_solver.cls, "type.">>))
          ELSE [@ EXCEPT !.pc = "Wallet", !.calls = @ + 1, !.error = NoError]]
    /\ UNCHANGED <<inst, shared_solver, instances, wallets, started>>

\* solve() reusing the first wallet it made instead of making a new one
NewWalletShared(p) ==
    /\ threads[p].pc = "Wallet"
    /\ wallets' = IF wallets = <<>> THEN <<Wallet(DefaultNetwork)>> ELSE wallets
    /\ threads' = [threads EXCEPT ![p].pc = "from_root_xprivate_key", ![p].wallet = 1]
    /\ UNCHANGED <<inst, shared_solver, instances, started>>

\* solve(): Wallet(network=network), a new object
NewWallet(p) ==
    /\ threads[p].pc = "Wallet"
    /\ wallets' = Append(wallets, Wallet(DefaultNetwork))
    /\ threads' = [threads EXCEPT ![p].pc = "from_root_xprivate_key",
                                  ![p].wallet = Len(wallets) + 1]
    /\ UNCHANGED <<inst, shared_solver, instances, started>>

\* solve(): .from_root_xprivate_key(xprivate_key=self._xprivate_key)
FromRootXPrivateKey(p) ==
    /\ threads[p].pc = "from_root_xprivate_key"
    /\ wallets' = [wallets EXCEPT ![threads[p].wallet] =
                        from_root_xprivate_key(@, shared_solver.xprivate_key)]
    /\ threads' = [threads EXCEPT ![p].pc = "from_path"]
    /\ UNCHANGED <<inst, shared_solver, instances, started>>

\* solve(): .from_path(path=self._path)
FromPath(p) ==
    /\ threads[p].pc = "from_path"
    /\ wallets' = [wallets EXCEPT ![threads[p].wallet] = from_path(@, shared_solver.path)]
    /\ threads' = [threads EXCEPT ![p].pc = "sign_transaction"]
    /\ UNCHANGED <<inst, shared_solver, instances, started>>

\* sign_transaction(transaction_dict=self._transaction, private_key=wallet.private_key())
SignTransaction(p) ==
    /\ threads[p].pc = "sign_transaction"
    /\ LET signed == sign_transaction(instances[p]._transaction,
                                      private_key(wallets[threads[p].wallet]))
       IN  threads' = [threads EXCEPT ![p] =
                IF signed.error # NoError THEN Idle(@.calls, signed.error)
                ELSE [@ EXCEPT !.pc = "_signature", !.signed = <<signed>>]]
    /\ UNCHANGED <<inst, shared_solver, instances, wallets, started>>

\* the signature stored is that of the transaction signed by the other call
StoreSignatureOfOther(p) ==
    /\ threads[p].pc = "_signature"
    /\ instances' = [instances EXCEPT ![p]._signature =
            SignatureDict(IF threads[3 - p].signed # <<>> THEN threads[3 - p].signed[1]
                          ELSE threads[p].signed[1])]
    /\ threads' = [threads EXCEPT ![p].pc = "_type"]
    /\ UNCHANGED <<inst, shared_solver, wallets, started>>

\* self._signature = dict(hash=, rawTransaction=, r=, s=, v=)
StoreSignature(p) ==
    /\ threads[p].pc = "_signature"
    /\ instances' = [instances EXCEPT ![p]._signature = SignatureDict(threads[p].signed[1])]
    /\ threads' = [threads EXCEPT ![p].pc = "_type"]
    /\ UNCHANGED <<inst, shared_solver, wallets, started>>

\* self._type = "xinfin_<role>_signed"; the call returns
StoreType(p) ==
    /\ threads[p].pc = "_type"
    /\ instances' = [instances EXCEPT ![p]._type = PyStr(TypeTag(instances[p].role, S_signed))]
    /\ threads' = [threads EXCEPT ![p] = Idle(@.calls, NoError)]
    /\ UNCHANGED <<inst, shared_solver, wallets, started>>

ConcNext ==
    \/ \E p \in Threads : SignCall(p)
    \/ \E p \in Threads : NewWallet(p)
    \/ \E p \in Threads : FromRootXPrivateKey(p)
    \/ \E p \in Threads : FromPath(p)
    \/ \E p \in Threads : SignTransaction(p)
    \/ \E p \in Threads : StoreSignature(p)
    \/ \E p \in Threads : StoreType(p)

ConcSpec == ConcInit /\ [][ConcNext]_vars

\* sign(solver) run from its first statement to its last on one instance
SignInstance(instance, solver) ==
    IF solver.cls # ExpectedSolver(instance.role) THEN instance
    ELSE LET wallet == solve(solver, DefaultNetwork)
             signed == sign_transaction(instance._transaction, private_key(wallet))
         IN  IF signed.error # NoError THEN instance
             ELSE [instance EXCEPT !._signature = SignatureDict(signed),
                                   !._type = PyStr(TypeTag(instance.role, S_signed))]

\* the instances after the sign calls of order, one after the other
RECURSIVE SignInOrder(_, _, _)
SignInOrder(insts, solver, order) ==
    IF Len(order) = 0 THEN insts
    ELSE SignInOrder([insts EXCEPT ![order[1]] = SignInstance(@, solver)], solver, Tail(order))

(***************************************************************************)
(* Properties.                                                             *)
(***************************************************************************)
UnsignedType == PyStr(TypeTag(role, S_unsigned))
SignedType == PyStr(TypeTag(role, S_signed))

SignSucceeded(call) == call.op = "sign" /\ call.error = NoError
BuildSucceeded(call) == call.op = "build_transaction" /\ call.error = NoError

\* two results that are the same str, character for character
SameRaw(a, b) ==
    ~a.raised /\ ~b.raised /\ a.value.t = "str" /\ b.value.t = "str" /\ a.value.v = b.value.v

\* C1: after a sign(solver) that succeeded on an unsigned transaction, the
\* facade given the unsigned transaction raw taken before the call, the
\* instance's network and the same solver yields the transaction raw the
\* instance now yields.
C1_FacadeEqualsSign ==
    (SignSucceeded(last) /\ Get(last.before[1], S_type) = UnsignedType)
        => SameRaw(SignatureSign(_network, EncodeRaw(last.before[1]), last.solver),
                   transaction_raw)

\* a signed instance whose signed raw the facade reproduces from the unsigned
\* raw, which carried the signature of an earlier transaction
C1_Witness ==
    /\ SignSucceeded(last)
    /\ Get(last.before[1], S_type) = UnsignedType
    /\ Get(last.before[1], S_signature).t = "dict"
    /\ Get(last.before[1], S_signature) # _signature
    /\ SameRaw(SignatureSign(_network, EncodeRaw(last.before[1]), last.solver),
               transaction_raw)

\* a result that is the "build transaction first" ValueError and no value
RaisesNotBuilt(result) ==
    result.raised /\ result.error = NotBuiltError /\ result.value.t = "none"

\* C2: while build_transaction has never succeeded on the instance, each of
\* fee (whatever the unit), hash, raw, json, type, signature and
\* transaction_raw raises the "build transaction first" ValueError and
\* returns nothing.
C2_AccessorsRaiseBeforeBuild ==
    ~built =>
        /\ \A unit \in UnitInputs : RaisesNotBuilt(fee(unit))
        /\ RaisesNotBuilt(hash)
        /\ RaisesNotBuilt(raw)
        /\ RaisesNotBuilt(json)
        /\ RaisesNotBuilt(type)
        /\ RaisesNotBuilt(signature)
        /\ RaisesNotBuilt(transaction_raw)

\* a never-built instance on which a build got as far as assigning the fee
C2_Witness ==
    /\ ~built
    /\ _fee # PyNone
    /\ last.op = "build_transaction"
    /\ fee("Wei").raised

\* C3: a sign with the solver of the instance's role, made while
\* build_transaction has not succeeded, ends with the "build transaction
\* first" ValueError.
C3_SignBeforeBuildNotBuilt ==
    (last.op = "sign" /\ ~built /\ last.solver.cls = ExpectedSolver(role))
        => last.error = NotBuiltError

\* C4: in every state, a sign given anything but the solver class of the
\* instance's role ends with the TypeError that names the expected class and
\* the class of what was passed.
C4_WrongSolverTypeError ==
    (last.op = "sign" /\ last.solver.cls # ExpectedSolver(role))
        => last.error = Error("TypeError",
                <<"Solver must be XinFin", ExpectedSolver(role),
                  "not", last.solver.cls, "type.">>)

\* a signed instance that has just rejected a solver of another role
C4_Witness ==
    /\ last.op = "sign"
    /\ last.solver.cls \in SolverClasses \ {ExpectedSolver(role)}
    /\ last.error.kind = "TypeError"
    /\ _signature # PyNone

\* C5: the signature is None until a sign succeeds, changes only by a sign
\* that succeeds, and once set is never changed by any later call.
C5_SignatureImmutable ==
    [][ /\ (_signature' # _signature => SignSucceeded(last'))
        /\ (_signature # PyNone => _signature' = _signature)
      ]_vars

\* C6: in every state the fee is set exactly when the transaction is set.
C6_FeeIffTransaction ==
    (_fee = PyNone) <=> (_transaction = PyNone)

\* C7: after a build_transaction that succeeded, the nonce and gas price
\* the estimate was made with are the nonce and gas price of the assembled
\* transaction.
C7_EstimateMatchesAssembly ==
    BuildSucceeded(last)
        => last.estimate = << Get(_transaction, S_nonce).v, Get(_transaction, S_gasPrice).v >>

\* the errors the validation of the arguments raises
ValidationError(e) ==
    \/ e.kind = "AddressError"
    \/ e.kind = "TypeError"
       /\ e.text[1] \in {"Invalid HTLC instance, only takes xinfin HTLC class",
                         "Solver must be XinFin"}

\* C8: a call that ends with a validation error (wrong HTLC type, malformed
\* or mismatched address, wrong solver type) leaves fee, transaction,
\* signature and type as they were and has made no estimateGas and no
\* sign_transaction call.
C8_ValidationKeepsState ==
    [][ ValidationError(last'.error)
        => /\ UNCHANGED <<_fee, _transaction, _signature, _type>>
           /\ \A i \in DOMAIN last'.calls :
                  last'.calls[i] \notin {"estimateGas", "sign_transaction"}
      ]_vars

\* a signed instance that has just rejected the address given to a build
C8_Witness ==
    /\ last.op = "build_transaction"
    /\ last.error.kind = "AddressError"
    /\ last.calls = <<>>
    /\ _signature # PyNone
    /\ _type = SignedType

ReEncodes(s) == EncodeRaw(decode_transaction_raw(s)) = s

C11_TypeOfOwnRole ==
    /\ built => _type \in {UnsignedType, SignedType}
    /\ BuildSucceeded(last) => _type = UnsignedType
    /\ SignSucceeded(last) => _type = SignedType
    /\ \A r \in Roles \ {role} :
          _type \notin {PyStr(TypeTag(r, S_unsigned)), PyStr(TypeTag(r, S_signed))}

\* a withdraw instance, built and then signed
C11_Witness ==
    role = "withdraw" /\ built /\ SignSucceeded(last) /\ _type = SignedType

\* the address is malformed or, in checksum form, is not the sender of the
\* HTLC's agreements
NotTheSender(address, htlc) ==
    \/ ~is_address(address)
    \/ to_checksum_address(address, S_0x) # htlc.agreements.sender_address

\* C12: given an HTLC, the fund build_transaction called with an address that
\* is malformed or that, in checksum form, differs from the sender of the
\* HTLC's agreements ends with AddressError and stores no transaction; a
\* fund build that succeeds stores a transaction whose "from" is that sender.
C12_FundOnlyForSender ==
    [][ \A address \in FundAddressInputs, htlc \in HtlcInputs, amount \in AmountInputs :
            htlc.cls = "HTLC"
                => /\ (NotTheSender(address, htlc) /\ FundBuildTransaction(address, htlc, amount))
                        => /\ last'.error.kind = "AddressError"
                           /\ _transaction' = _transaction
                   /\ (BuildSucceeded(last') /\ FundBuildTransaction(address, htlc, amount))
                        => /\ ~NotTheSender(address, htlc)
                           /\ Get(_transaction', S_from) = PyStr(htlc.agreements.sender_address) ]_vars

\* a fund build refused for an address that is well formed but is not the
\* agreements' sender
C12_Witness ==
    /\ role = "fund"
    /\ last.op = "build_transaction"
    /\ last.error.kind = "AddressError"
    /\ last.error.text[1] = "Wrong XinFin sender"
    /\ last.error.text[2] = LOWER_B

\* C13: a sign that succeeds right after a sign that succeeded with the same
\* solver, on the same built transaction, leaves the stored signature (hash,
\* rawTransaction, r, s, v) and the type as they were, and with them the
\* object that transaction_raw() encodes.
C13_SignTwiceSame ==
    [][ (/\ SignSucceeded(last) /\ SignSucceeded(last')
         /\ last'.solver = last.solver
         /\ _transaction' = _transaction)
            => /\ _signature' = _signature
               /\ _type' = _type
               /\ RawObject(_fee', _transaction', _signature', _network', _type')
                    = RawObject(_fee, _transaction, _signature, _network, _type)
               /\ last'.before = <<RawObject(_fee', _transaction', _signature', _network', _type')>> ]_vars

\* a signed instance signed a second time: the object recorded before the
\* call was signed already and carries the signature the instance has now
C13_Witness ==
    /\ SignSucceeded(last)
    /\ Get(last.before[1], S_type) = SignedType
    /\ Get(last.before[1], S_signature) = _signature
    /\ Get(last.before[1], S_transaction) = _transaction

\* a result that is an error raised or a value that is not None
RaisesOrPopulated(result) == result.raised \/ result.value.t # "none"

\* C14: in every state each accessor (fee, hash, raw, json, type, signature,
\* transaction_raw) either raises or returns a value that is not None.
C14_AccessorsNeverNull ==
    /\ \A unit \in UnitInputs : RaisesOrPopulated(fee(unit))
    /\ RaisesOrPopulated(json)
    /\ RaisesOrPopulated(type)
    /\ RaisesOrPopulated(hash)
    /\ RaisesOrPopulated(raw)
    /\ RaisesOrPopulated(signature)
    /\ RaisesOrPopulated(transaction_raw)

\* the calls that have returned at least once, in ascending order
Returned(th) == IF th[1].calls > 0
                THEN (IF th[2].calls > 0 THEN <<1, 2>> ELSE <<1>>)
                ELSE (IF th[2].calls > 0 THEN <<2>> ELSE <<>>)

Reverse(order) == [i \in 1..Len(order) |-> order[Len(order) + 1 - i]]

\* C15: with one solver given to the sign calls of two instances, no
\* statement of the call on one instance changes the other instance or the
\* solver, and whenever no call is running the instances are as the calls
\* made one after the other, in either order, leave them.
C15_InterleavedAsSequential ==
    [][ /\ shared_solver' = shared_solver
        /\ \A p \in Threads :
              threads'[p] # threads[p] => instances'[3 - p] = instances[3 - p]
        /\ (\A p \in Threads : threads'[p].pc = "idle")
              => /\ instances' = SignInOrder(started, shared_solver, Returned(threads'))
                 /\ instances' = SignInOrder(started, shared_solver, Reverse(Returned(threads'))) ]_vars

\* the two calls interleaved: the first has stored its signature and not yet
\* its type while the second is deriving its wallet
C15_Witness ==
    /\ Len(threads) = 2
    /\ threads[1].pc = "_type"
    /\ threads[2].pc = "from_path"
    /\ instances[1]._signature.t = "dict"
    /\ instances[1]._type = PyStr(TypeTag(instances[1].role, S_unsigned))

\* the wallets whose derivation has ended: no running solve() holds them
Derived ==
    {w \in DOMAIN wallets :
        \A p \in Threads :
            threads[p].wallet = w => threads[p].pc \notin {"from_root_xprivate_key", "from_path"}}

\* the wallets of two running calls are two objects
FreshWallets ==
    \A p \in Threads : \A q \in Threads \ {p} :
        threads[p].wallet # 0 => threads[p].wallet # threads[q].wallet

\* every wallet solve() has returned holds the key derived from the solver's
\* xprivate key and path
SamePrivateKey ==
    \A w \in Derived :
        private_key(wallets[w]) = private_key(solve(shared_solver, DefaultNetwork))

\* C16: no statement of solve() changes a field of the solver, every solve()
\* makes a wallet object of its own, and every wallet returned by a solve()
\* on the solver holds the same private key, however many calls are made.
C16_SolveIsPure ==
    [][ /\ shared_solver' = shared_solver
        /\ Len(wallets') >= Len(wallets)
        /\ \A p \in Threads :
              (threads[p].pc = "Wallet" /\ threads'[p].pc # "Wallet")
                  => threads'[p].wallet \notin DOMAIN wallets
        /\ FreshWallets'
        /\ SamePrivateKey' ]_vars

\* a solver with an address index of 1 solved three times, two of the
\* wallets held by running calls
C16_Witness ==
    /\ Len(wallets) >= 3
    /\ shared_solver.path[5] = 1
    /\ threads[1].pc = "sign_transaction"
    /\ threads[2].pc = "sign_transaction"
    /\ threads[1].wallet # threads[2].wallet

\* how many times a call was made
Attempts(calls, name) == Cardinality({i \in DOMAIN calls : calls[i] = name})

\* the call ended with the failure of a lookup or of the estimate
LookupFailed(call) ==
    \/ call.error.kind = "TransactionNotFound"
    \/ /\ call.error.kind = "ProviderError"
       /\ call.error.text[1] \in {"get_transaction_count", "gasPrice", "estimateGas"}

\* C17: a build_transaction call attempts the receipt lookup and the fee
\* estimate at most once each, and when the receipt lookup, a nonce or gas
\* price lookup or the fee estimate fails the call ends with that failure:
\* the failing call is the last call it made and it stores no transaction.
C17_NoRetry ==
    [][ last'.op = "build_transaction"
            => /\ Attempts(last'.calls, "get_transaction_receipt") <= 1
               /\ Attempts(last'.calls, "estimateGas") <= 1
               /\ LookupFailed(last')
                    => /\ last'.calls[Len(last'.calls)]
                            = (IF last'.error.kind = "TransactionNotFound"
                               THEN "get_transaction_receipt" ELSE last'.error.text[1])
                       /\ "buildTransaction" \notin {last'.calls[i] : i \in DOMAIN last'.calls}
                       /\ _transaction' = _transaction
                       /\ _type' = _type
                       /\ built' = built ]_vars

\* a withdraw build whose fee estimate failed after the receipt was found,
\* on an instance that keeps the transaction of an earlier build
C17_Witness ==
    /\ role = "withdraw"
    /\ built
    /\ last.op = "build_transaction"
    /\ last.error = Error("ProviderError", <<"estimateGas">>)
    /\ Attempts(last.calls, "get_transaction_receipt") = 1
    /\ Attempts(last.calls, "estimateGas") = 1

\* C20: whenever a transaction is stored, fee("Wei") returns the "gas" of the
\* stored transaction.
C20_FeeIsGasOfTransaction ==
    ~Falsy(_transaction)
        => /\ ~fee("Wei").raised
           /\ fee("Wei").value.t = "int"
           /\ fee("Wei").value.v = Get(_transaction, S_gas).v

\* C21: on a built instance the signature is not None exactly when the type
\* is the signed tag, so the object transaction_raw() encodes never has the
\* unsigned tag together with a signature.
C21_SignatureIffSignedType ==
    built => ((_signature.t # "none") <=> (_type = SignedType))

\* C22: a signature is stored, or the type is a signed tag, only on an
\* instance on which a build_transaction has succeeded; a sign called on an
\* instance never built stores no signature and sets no type.
C22_SignedOnlyAfterBuild ==
    /\ (_signature.t # "none" \/ _type = SignedType) => built
    /\ (last.op = "sign" /\ ~built)
            => /\ last.error # NoError
               /\ _signature = PyNone
               /\ _type = PyNone

\* a sign with the solver of the role's class called on an instance never
\* built: the signing library was reached and nothing was stored
C22_Witness ==
    /\ ~built
    /\ last.op = "sign"
    /\ last.solver.cls = ExpectedSolver(role)
    /\ last.calls = <<"solve", "sign_transaction">>
    /\ _signature = PyNone

\* C23: a sign that succeeds leaves the fee, the stored transaction dict
\* that json() returns and the network as they were, for every role; it
\* assigns the signature and the type only.
C23_SignChangesSignatureAndType ==
    [][ SignSucceeded(last')
            => /\ _fee' = _fee
               /\ _transaction' = _transaction
               /\ _network' = _network
               /\ role' = role
               /\ _type' = SignedType
               /\ _signature'.t = "dict" ]_vars

\* a refund instance signed for the first time: the object recorded before
\* the call has the fee, the transaction and the network the instance has now
C23_Witness ==
    /\ role = "refund"
    /\ SignSucceeded(last)
    /\ Get(last.before[1], S_type) = UnsignedType
    /\ Get(last.before[1], S_fee) = _fee
    /\ Get(last.before[1], S_transaction) = _transaction
    /\ Get(last.before[1], S_network) = _network

\* the errors a withdraw build_transaction ends with that the builder does
\* not raise itself: the provider's and the log decoder's
PropagatedError(e) ==
    \/ e.kind = "ProviderError" /\ e.text[1] \in {Steps[k] : k \in DOMAIN Steps}
    \/ e.kind \in {"TransactionNotFound", "IndexError", "MismatchedABI"}

\* C24: the withdraw build_transaction makes no check of the secret it is
\* given: it raises no ValueError, the only error of its own is the
\* AddressError of the address check, a rejection by the fee estimate ends
\* the call with the estimate's error, and when the provider answers every
\* call an unsigned withdraw transaction is built whose data carries the
\* secret as given.  Whether the secret opens the contract is the chain's to
\* say, through the estimate's answer.
C24_SecretNotCheckedLocally ==
    [][ (role = "withdraw" /\ last'.op = "build_transaction")
            => /\ last'.error.kind # "ValueError"
               /\ \/ last'.error.kind = "AddressError"
                  \/ PropagatedError(last'.error) /\ _transaction' = _transaction
                  \/ /\ BuildSucceeded(last')
                     /\ _type' = PyStr(TypeTag("withdraw", S_unsigned))
                     /\ \E secret_key \in SecretInputs,
                           htlc_transaction_hash \in HtlcTransactionHashInputs :
                          Get(_transaction', S_data) = PyStr(encodeABI(
                            [to |-> HtlcContractAddress(htlc_transaction_hash, _network),
                             fn |-> "withdraw",
                             args |-> << [k |-> "bytes",
                                          v |-> get_transaction_receipt("0xfunded").logs[1].args.locked_contract_id],
                                         [k |-> "string", v |-> secret_key] >>])) ]_vars

\* an unsigned withdraw transaction built with the secret, and before it a
\* signed one: the estimate accepted the call
C24_Witness ==
    /\ role = "withdraw"
    /\ BuildSucceeded(last)
    /\ _type = UnsignedType
    /\ _signature.t = "dict"
    /\ Get(_transaction, S_data) = PyStr(encodeABI(
            WithdrawFunction(ADDR_C, <<49, 100>>, SECRET_KEY)))

\* the funding transactions whose receipt has the fund event as its first log
Funded ==
    {th \in TransactionHashInputs :
        /\ get_transaction_receipt(th).found
        /\ Len(get_transaction_receipt(th).logs) > 0
        /\ get_transaction_receipt(th).logs[1].event = "log_fund"}

\* C25: a withdraw and a refund transaction built for a funding transaction
\* hash call the contract with the locked_contract_id of the fund event
\* that is the first log of that transaction's receipt: the data of the
\* withdraw is withdraw(id, secret_key) and the data of the refund is
\* refund(id), with the same id.
C25_SameLockedContractId ==
    (role \in {"withdraw", "refund"} /\ BuildSucceeded(last))
        => \E th \in Funded :
             LET id == get_transaction_receipt(th).logs[1].args.locked_contract_id
             IN  Get(_transaction, S_data).v =
                    IF role = "withdraw"
                    THEN S_0x \o Selector("withdraw") \o id \o HexBytes(SECRET_KEY)
                    ELSE S_0x \o Selector("refund") \o id

\* a refund transaction built from the receipt of the funding transaction,
\* which has a second log with another id
C25_Witness ==
    /\ role = "refund"
    /\ BuildSucceeded(last)
    /\ "processLog" \in {last.calls[i] : i \in DOMAIN last.calls}
    /\ Len(get_transaction_receipt("0xfunded").logs) = 2
    /\ Get(_transaction, S_data).v = S_0x \o Selector("refund") \o <<49, 100>>

\* the funding transactions whose receipt is found and has no fund event as
\* its first log: no logs, or a first log of another event
NoFundLog ==
    {th \in TransactionHashInputs : get_transaction_receipt(th).found} \ Funded

\* C26: a withdraw or refund build_transaction given a well-formed address
\* and a funding transaction whose receipt has no fund log at index 0 ends
\* with NotFoundError and leaves the fee, the transaction and the type as
\* they were, so that an instance never built stays unbuilt.
C26_NoFundLogNotFoundError ==
    [][ \A transaction_hash \in NoFundLog, secret_key \in SecretInputs,
           htlc_transaction_hash \in HtlcTransactionHashInputs :
            ( \/ WithdrawBuildTransaction(transaction_hash, LOWER_B, secret_key,
                                          htlc_transaction_hash)
              \/ RefundBuildTransaction(transaction_hash, XDC_A, htlc_transaction_hash) )
                => /\ last'.error.kind = "NotFoundError"
                   /\ UNCHANGED <<_fee, _transaction, _type, built>> ]_vars

\* C27: the wallet a sign call derives is a wallet of the network of the
\* instance the call is made on.
C27_WalletOfOwnNetwork ==
    \A p \in DOMAIN threads :
        threads[p].wallet # 0 => wallets[threads[p].wallet].network = instances[p]._network

\* C28: the data of a fund transaction is the fund call on the agreements'
\* secret_hash, recipient_address, sender_address and endtime, each as the
\* HTLC holds it and in that order; the builder reads no clock and builds
\* for an endtime whatever its value, here one long past.
C28_AgreementsForwarded ==
    (role = "fund" /\ BuildSucceeded(last))
        => \E htlc \in {h \in HtlcInputs : h.cls = "HTLC"} :
             /\ Get(_transaction, S_to).v = htlc.contract_address
             /\ Get(_transaction, S_data).v =
                    S_0x \o Selector("fund")
                         \o ArgHex([k |-> "bytes", v |-> htlc.agreements.secret_hash])
                         \o ArgHex([k |-> "address", v |-> htlc.agreements.recipient_address])
                         \o ArgHex([k |-> "address", v |-> htlc.agreements.sender_address])
                         \o ArgHex([k |-> "uint", v |-> htlc.agreements.endtime])

\* a fund transaction built for agreements whose endtime, 7 seconds after
\* the epoch, is in the past, and whose recipient is not the sender
C28_Witness ==
    /\ role = "fund"
    /\ BuildSucceeded(last)
    /\ HTLC_AB.agreements.endtime = 7
    /\ HTLC_AB.agreements.recipient_address # HTLC_AB.agreements.sender_address
    /\ Get(_transaction, S_data).v = encodeABI(FundFunction(HTLC_AB))

\* the addresses and the amounts the role's build_transaction is called with
RoleAddressInputs ==
    CASE role = "fund" -> FundAddressInputs
      [] role = "withdraw" -> WithdrawAddressInputs
      [] role = "refund" -> RefundAddressInputs

\* C29: the "value" of a built transaction is the amount asked for on a
\* fund instance and 0 on a withdraw or refund instance, its "from" is the
\* checksum form of the address the builder was given, and the estimate was
\* made with the same "from" and "value" as the transaction assembled.
C29_ValueAndFrom ==
    BuildSucceeded(last)
        => /\ IF role = "fund" THEN Get(_transaction, S_value).v \in AmountInputs
                               ELSE Get(_transaction, S_value).v = 0
           /\ \E address \in RoleAddressInputs :
                /\ is_address(address)
                /\ Get(_transaction, S_from).v = to_checksum_address(address, S_0x)
           /\ last.estimated = <<Get(_transaction, S_from).v, Get(_transaction, S_value).v>>

\* a fund transaction built for the amount 3 from the sender's address given
\* with the xdc prefix
C29_Witness ==
    /\ role = "fund"
    /\ BuildSucceeded(last)
    /\ Get(_transaction, S_value).v = 3
    /\ Get(_transaction, S_from).v = ADDR_A
    /\ last.estimated = <<ADDR_A, 3>>

====
